---- MODULE Spec2Model ----
(***************************************************************************)
(* Synchronization worker of the Mongo -> Chroma vector API                *)
(* (src/worker/mongo_stream_worker.py), with its configuration             *)
(* (src/backend/config.py).                                                *)
(*                                                                         *)
(* Document ids (ObjectId) are the naturals 1..MaxDocs, in insertion       *)
(* order; None is 0.  The checkpoint file holds text: a sequence of        *)
(* decimal digits, IdWidth of them for a complete id (an ObjectId prints   *)
(* as 24 hex digits).  Python floats are binary fractions with MantBits    *)
(* fraction bits in [1, 2) (52 in a double).                               *)
(***************************************************************************)
EXTENDS Naturals, Sequences, FiniteSets

\* ---------------------------------------------------------------- bounds
MaxDocs == 3
MaxBatchSize == 2
MaxRetries == 2
MaxBackoffBase == 2
IdWidth == 2
MantBits == 2
MaxPollErrors == 2
MaxCount == 3
MaxLimit == 2
MaxTime == 91

\* ------------------------------------------------------------- constants
None == 0
\* RATE_WINDOW_SEC of backend/app.py, in seconds
RATE_WINDOW_SEC == 60

VARIABLES
  \* configuration, read once from the environment (backend/config.py)
  USE_CHANGE_STREAM, WORKER_BATCH_SIZE, WORKER_MAX_RETRIES, WORKER_BACKOFF_BASE_SEC,
  required_present, \* every name of REQUIRED_VARS is set in the environment
  count_cap,       \* how far the model follows the counters (0: not at all)
  \* the world outside the worker
  coll,            \* ids of the documents in the source collection
  file_exists,     \* whether WORKER_CHECKPOINT_FILE exists
  file_text,       \* its contents, a sequence of characters (digits)
  ingested,        \* ids the ingestion API acknowledged (upserted)
  \* the worker process
  pc,              \* position in the code
  metrics_started, \* start_http_server was called in this process
  WORKER_PROCESSED, \* the counter worker_processed_total, by status
  WORKER_RETRIES,  \* the counter worker_retries_total
  WORKER_LAST_ID,  \* the gauge worker_last_processed_id_timestamp (as an id)
  last_seen_id,    \* run_polling_worker's checkpoint in memory
  docs,            \* the fetched run (ids, ascending)
  i,               \* start index of the current sub-batch (0-based)
  batch,           \* the current sub-batch
  attempt,         \* loop variable of the retry loop (0-based)
  sleep_for,       \* the delay computed after a failed attempt, in 2^-MantBits s
  change,          \* run_change_stream_worker's current change event
  payloads,        \* the payloads built for the current delivery
  pdoc,            \* the document handed to _to_payload (PayloadSpec)
  \* history (not read by the worker)
  dispatched,      \* ids that were part of some POST
  run_batches,     \* the sub-batches taken from the current run, in order
  run_ok,          \* their results, in order
  posts,           \* POST attempts of the current delivery
  fails,           \* failed attempts of the current delivery
  finished,        \* events of the deliveries that returned in this process
  last_ok_batch,   \* the most recent sub-batch acknowledged
  committed,       \* the id written by the last completed save_checkpoint
  first_fetch,     \* no fetch has returned yet since the process started
  fetch_errors,    \* fetches that failed in a row, counted up to MaxPollErrors
  save_prev,       \* what the file held when the last save_checkpoint began
  save_new,        \* the id the last save_checkpoint was called with
  crash_in_save,   \* the last stop hit the process inside save_checkpoint
  \* the ingestion API (backend/app.py)
  RATE_LIMIT_PER_MIN, \* requests a client may make per window
  API_TOKEN,       \* the token requests must carry; "" when none is set
  now,             \* time.time(), in seconds
  request_log,     \* per client IP, the times of the requests in its window
  admitted,        \* history: per client IP, the times of all requests let through
  handled          \* history: the last request handled and its status

config == <<USE_CHANGE_STREAM, WORKER_BATCH_SIZE, WORKER_MAX_RETRIES, WORKER_BACKOFF_BASE_SEC,
            required_present, count_cap>>
metrics == <<WORKER_PROCESSED, WORKER_RETRIES, WORKER_LAST_ID, finished>>
startup == <<metrics_started, fetch_errors>>
file == <<file_exists, file_text>>
locals == <<last_seen_id, docs, i, batch, attempt, sleep_for, change>>
run_hist == <<run_batches, run_ok, posts, fails>>
crash_hist == <<save_prev, save_new, crash_in_save>>
api == <<RATE_LIMIT_PER_MIN, API_TOKEN, now, request_log, admitted, handled>>
vars == <<config, api, startup, metrics, pdoc, payloads, coll, file, ingested, pc, locals, dispatched, run_hist,
          last_ok_batch, committed, first_fetch, crash_hist>>

\* --------------------------------------------------------------- helpers
Min(a, b) == IF a < b THEN a ELSE b

Last(s) == s[Len(s)]

Range(s) == {s[k] : k \in 1..Len(s)}

RECURSIVE Pow(_, _)
Pow(b, e) == IF e = 0 THEN 1 ELSE b * Pow(b, e - 1)

\* str(ObjectId): a fixed-width rendering, most significant digit first.
ToStr(id) == [k \in 1..IdWidth |-> (id \div Pow(10, IdWidth - k)) % 10]

RECURSIVE DigitsValue(_)
DigitsValue(s) ==
  IF s = <<>> THEN 0 ELSE 10 * DigitsValue(SubSeq(s, 1, Len(s) - 1)) + Last(s)

\* Characters of the file other than the digits 0..9: white space (a newline,
\* a blank), which str.strip() removes, and a character that is no hex digit.
Whitespace == {10}
NonHex == {11}

RECURSIVE LStrip(_)
LStrip(s) == IF s # <<>> /\ s[1] \in Whitespace THEN LStrip(Tail(s)) ELSE s

RECURSIVE RStrip(_)
RStrip(s) ==
  IF s # <<>> /\ Last(s) \in Whitespace THEN RStrip(SubSeq(s, 1, Len(s) - 1)) ELSE s

\* str.strip()
Strip(s) == RStrip(LStrip(s))

\* ObjectId(val): raises InvalidId unless val has the full width.
ObjectIdValid(val) == Len(val) = IdWidth /\ \A k \in 1..Len(val) : val[k] \in 0..9

\* Mutant of LoadEscapes: no try/except around the read and the parse.
LoadEscapesNoTry(exists, text) ==
  exists /\ Strip(text) # <<>> /\ ~ObjectIdValid(Strip(text))

\* Whether _load_checkpoint leaves by an exception: `except Exception: return
\* None` handles what read_text and ObjectId raise.
LoadEscapes(exists, text) == FALSE

\* _load_checkpoint applied to a file state.
load_checkpoint(exists, text) ==
  LET val == Strip(text)
  IN  IF ~exists THEN None
      ELSE IF val = <<>> THEN None
      ELSE IF ObjectIdValid(val) THEN DigitsValue(val)
      ELSE None

\* Mutant of SortAsc: the sort direction reversed.
RECURSIVE SortDesc(_)
SortDesc(S) ==
  IF S = {} THEN <<>>
  ELSE LET m == CHOOSE x \in S : \A y \in S : x >= y
       IN  <<m>> \o SortDesc(S \ {m})

\* coll.find(query).sort("_id", 1)
RECURSIVE SortAsc(_)
SortAsc(S) ==
  IF S = {} THEN <<>>
  ELSE LET m == CHOOSE x \in S : \A y \in S : x <= y
       IN  <<m>> \o SortAsc(S \ {m})

\* Mutant of Query: the lower bound included ($gte).
QueryInclusive(last) == IF last # None THEN {d \in coll : d >= last} ELSE coll

\* query = {"_id": {"$gt": last_seen_id}} if last_seen_id else {}
Query(last) == IF last # None THEN {d \in coll : d > last} ELSE coll

\* docs[lo : hi] of Python (0-based, hi exclusive, clipped to the length).
Slice(s, lo, hi) == SubSeq(s, lo + 1, Min(hi, Len(s)))

\* r.raise_for_status(): raises for 400 <= status < 600.  Status 0 stands for
\* requests.post itself raising (connection error, timeout); the others are
\* what the ingestion API answers: 200, a 4xx (401, 413, 422, 429), a 5xx.
Statuses == {0, 200, 422, 500}
Raises(status) == status = 0 \/ (400 <= status /\ status < 600)

\* `except Exception`: every failure of the attempt is handled in the loop.
Caught(status) == TRUE

\* random.random(): r / 2^RandBits for r in 0 .. 2^RandBits - 1.
RandBits == MantBits + 1
RandomValues == 0 .. (Pow(2, RandBits) - 1)

\* The float 1 + random.random(), in units of 2^-MantBits: the exact sum
\* (2^RandBits + r) / 2^RandBits has one bit more than the result holds and
\* is rounded to nearest, ties to even.
OnePlusRandom(r) ==
  LET x == Pow(2, RandBits) + r
      lo == x \div 2
  IN  IF x % 2 = 0 THEN lo
      ELSE IF lo % 2 = 0 THEN lo ELSE lo + 1

\* Mutant of SleepFor: the exponent taken from the 1-based attempt number.
SleepForOneBased(att, r) ==
  WORKER_BACKOFF_BASE_SEC * Pow(2, att + 1) * OnePlusRandom(r)

\* WORKER_BACKOFF_BASE_SEC * (2**attempt) * (1 + random.random())
SleepFor(att, r) == WORKER_BACKOFF_BASE_SEC * Pow(2, att) * OnePlusRandom(r)

\* A change event of the feed: its operationType and its fullDocument (the id
\* of the document, None when the event carries no document).
OperationTypes == {"insert", "replace", "update", "delete", "invalidate"}
NoChange == [operationType |-> "", fullDocument |-> None]

\* ------------------------------------------------------------- metrics
\* The worker writes its counters and never reads them.  The model follows
\* them up to count_cap and holds them there.
\* Mutant of Inc: the amount counted twice.
IncTwice(c, n) == Min(c + n + n, count_cap)

\* Counter.inc(n)
Inc(c, n) == Min(c + n, count_cap)

\* Gauge.set(id.generation_time.timestamp()); the timestamp grows with the id.
GaugeSet(g, id) == IF count_cap > 0 THEN id ELSE g

NoCounts == [status \in {"success", "error"} |-> 0]

\* ------------------------------------------------------------ documents
\* A document is a function from its keys to their values; every document
\* has "_id".  No document: the function of no key.
NoDoc == <<>>

MkDoc(id, keys, t, b, g) ==
  [k \in {"_id"} \cup keys |->
     CASE k = "_id" -> id [] k = "title" -> t [] k = "body" -> b [] k = "tags" -> g]

\* The document of the collection with a given id.  Which of title, body and
\* tags it has varies with the id.
DocOf(id) ==
  MkDoc(id,
        CASE id % 4 = 1 -> {"title", "body", "tags"}
          [] id % 4 = 2 -> {"body", "tags"}
          [] id % 4 = 3 -> {"title"}
          [] OTHER -> {},
        "t", "b", <<"x">>)

\* Mutant of Get: the stored value ignored.
GetDefault(doc, key, default) == default

\* doc.get(key, default)
Get(doc, key, default) == IF key \in DOMAIN doc THEN doc[key] ELSE default

\* _to_payload
to_payload(doc) ==
  [mongo_id |-> ToStr(doc["_id"]),
   title |-> Get(doc, "title", ""),
   body |-> Get(doc, "body", ""),
   tags |-> Get(doc, "tags", <<>>)]

\* The ids a POST of these payloads carries.
Sent(ps) == {DigitsValue(ps[k].mongo_id) : k \in 1..Len(ps)}

\* ------------------------------------------------------- the ingestion API
\* Client addresses (request.client.host).
Clients == {"10.0.0.1", "10.0.0.2"}

\* A path is the sequence of its characters.
Healthz == <<"/", "h", "e", "a", "l", "t", "h", "z">>
Readyz == <<"/", "r", "e", "a", "d", "y", "z">>
MetricsPath == <<"/", "m", "e", "t", "r", "i", "c", "s">>
Favicon == <<"/", "f", "a", "v", "i", "c", "o", "n", ".", "i", "c", "o">>
Root == <<"/">>
DocsPath == <<"/", "d", "o", "c", "s">>
OpenapiPath == <<"/", "o", "p", "e", "n", "a", "p", "i">>
UiPath == <<"/", "u", "i">>
IngestPath == <<"/", "i", "n", "g", "e", "s", "t">>

\* The paths requests are made to.
Paths == {Healthz, Readyz, MetricsPath, Root, DocsPath, UiPath \o <<"/", "a">>, IngestPath}

open_paths == {Healthz, Readyz, MetricsPath, Favicon, Root}

\* str.startswith
StartsWith(s, prefix) == Len(s) >= Len(prefix) /\ SubSeq(s, 1, Len(prefix)) = prefix

\* Mutant of skip_auth: only the listed paths, no prefix.
skip_auth_listed(path) == path \in open_paths

skip_auth(path) ==
  \/ path \in open_paths
  \/ StartsWith(path, DocsPath)
  \/ StartsWith(path, OpenapiPath)
  \/ StartsWith(path, UiPath)

\* An Authorization header is the sequence of its parts.
Headers == {<<>>, <<"secret">>, <<"Bearer ", "secret">>, <<"Bearer ", "wrong">>}

\* auth_header.replace("Bearer ", "").strip() if auth_header else ""
Token(header) ==
  LET rest == SelectSeq(header, LAMBDA w : w # "Bearer ")
  IN  IF rest = <<>> THEN "" ELSE rest[1]

\* Mutant of Expired: a time exactly one window old is dropped too.
ExpiredInclusive(t, ts) == t - ts >= RATE_WINDOW_SEC

\* now - timestamps[0] > RATE_WINDOW_SEC (tested as t > ts + window: the
\* model's numbers are naturals)
Expired(t, ts) == t > ts + RATE_WINDOW_SEC

\* while timestamps and now - timestamps[0] > RATE_WINDOW_SEC: popleft()
RECURSIVE PruneHead(_, _)
PruneHead(timestamps, t) ==
  IF timestamps # <<>> /\ Expired(t, timestamps[1])
    THEN PruneHead(Tail(timestamps), t)
    ELSE timestamps

NoRequest == [client_ip |-> "", path |-> <<>>, status |-> 0]

\* The API before its first request, with values nothing of the worker reads.
InitApi ==
  /\ RATE_LIMIT_PER_MIN = 0
  /\ API_TOKEN = ""
  /\ now = 0
  /\ request_log = [c \in Clients |-> <<>>]
  /\ admitted = [c \in Clients |-> <<>>]
  /\ handled = NoRequest

\* ------------------------------------------------------------------ init
Main == IF USE_CHANGE_STREAM THEN "feed_start" ELSE "poll_start"

\* The worker's own state when its process begins.
InitProcess ==
  /\ pc = "import"
  /\ metrics_started = FALSE
  /\ WORKER_PROCESSED = NoCounts
  /\ WORKER_RETRIES = 0
  /\ WORKER_LAST_ID = 0
  /\ finished = 0
  /\ fetch_errors = 0
  /\ last_seen_id = None
  /\ docs = <<>>
  /\ i = 0
  /\ batch = <<>>
  /\ attempt = 0
  /\ sleep_for = 0
  /\ change = NoChange
  /\ payloads = <<>>
  /\ pdoc = NoDoc
  /\ dispatched = {}
  /\ run_batches = <<>>
  /\ run_ok = <<>>
  /\ posts = 0
  /\ fails = 0
  /\ last_ok_batch = <<>>
  /\ committed = None
  /\ first_fetch = TRUE
  /\ save_prev = None
  /\ save_new = None
  /\ crash_in_save = FALSE

\* A first start: every configuration, an empty collection, no checkpoint file.
Init ==
  /\ USE_CHANGE_STREAM \in BOOLEAN
  /\ WORKER_BATCH_SIZE \in 1..MaxBatchSize
  /\ WORKER_MAX_RETRIES \in 0..MaxRetries
  /\ WORKER_BACKOFF_BASE_SEC \in 1..MaxBackoffBase
  /\ required_present \in BOOLEAN
  /\ count_cap = 0
  /\ coll = {}
  /\ file_exists = FALSE
  /\ file_text = <<>>
  /\ ingested = {}
  /\ InitApi
  /\ InitProcess

\* What a start may find at WORKER_CHECKPOINT_FILE when somebody else put it
\* there: white space, text that is no id, a text too short, an id with white
\* space around it.
ForeignTexts ==
  {<<>>} \cup {<<w>> : w \in Whitespace}
         \cup {[k \in 1..IdWidth |-> x] : x \in NonHex}
         \cup {SubSeq(ToStr(d), 1, IdWidth - 1) : d \in 1..MaxDocs}
         \cup {ToStr(d) : d \in 1..MaxDocs}
         \cup {<<w>> \o ToStr(d) \o <<w>> : d \in 1..MaxDocs, w \in Whitespace}

\* A start over a file of any contents, in one configuration of each mode.
FileInit ==
  /\ USE_CHANGE_STREAM \in BOOLEAN
  /\ WORKER_BATCH_SIZE = MaxBatchSize
  /\ WORKER_MAX_RETRIES = 1
  /\ WORKER_BACKOFF_BASE_SEC = 1
  /\ required_present = TRUE
  /\ count_cap = 0
  /\ coll = {}
  /\ \/ file_exists = FALSE /\ file_text = <<>>
     \/ file_exists = TRUE /\ file_text \in ForeignTexts
  /\ ingested = {}
  /\ InitApi
  /\ InitProcess

\* ----------------------------------------------------------- environment
\* A client inserts a document; ids are assigned in increasing order.  (The
\* feed worker never reads the collection: it sees the changes feed_next draws.)
InsertDoc ==
  /\ ~USE_CHANGE_STREAM
  /\ Cardinality(coll) < MaxDocs
  /\ coll' = coll \cup {Cardinality(coll) + 1}
  /\ UNCHANGED <<config, api, metrics, pdoc, payloads, startup, file, ingested, pc, locals, dispatched, run_hist,
                 last_ok_batch, committed, first_fetch, crash_hist>>

\* `from backend.config import ...`: config.py raises RuntimeError at import
\* when a name of REQUIRED_VARS is missing, and nothing of the worker has run;
\* otherwise __main__ calls the worker USE_CHANGE_STREAM selects.
import_config ==
  /\ pc = "import"
  /\ pc' = IF required_present THEN Main ELSE "fatal"
  /\ UNCHANGED <<config, api, metrics, pdoc, payloads, startup, coll, file, ingested, locals, dispatched, run_hist,
                 last_ok_batch, committed, first_fetch, crash_hist>>

\* ---------------------------------------------------- run_polling_worker
poll_start ==
  /\ pc = "poll_start"
  /\ IF LoadEscapes(file_exists, file_text)
       THEN /\ pc' = "raised"
            /\ UNCHANGED last_seen_id
       ELSE /\ pc' = "poll_fetch"
            /\ last_seen_id' = load_checkpoint(file_exists, file_text)
  /\ metrics_started' = (pc' = "poll_fetch")
  /\ first_fetch' = TRUE
  /\ crash_in_save' = FALSE
  /\ save_prev' = None
  /\ save_new' = None
  /\ UNCHANGED <<config, api, metrics, pdoc, payloads, fetch_errors, coll, file, ingested, docs, i, batch, attempt,
                 sleep_for, change, dispatched, run_hist, last_ok_batch, committed>>

poll_fetch ==
  /\ pc = "poll_fetch"
  /\ docs' = SortAsc(Query(last_seen_id))
  /\ i' = 0
  /\ pc' = IF docs' # <<>> THEN "poll_loop" ELSE "poll_sleep"
  /\ run_batches' = <<>>
  /\ run_ok' = <<>>
  /\ first_fetch' = FALSE
  /\ fetch_errors' = 0
  /\ UNCHANGED <<config, api, metrics, pdoc, payloads, metrics_started, coll, file, ingested, last_seen_id, batch, attempt,
                 sleep_for, change, dispatched, posts, fails, last_ok_batch, committed, crash_hist>>

\* Mutant of poll_fetch_error: no except clause around find().
poll_fetch_uncaught ==
  /\ pc = "poll_fetch"
  /\ pc' = "raised"
  /\ fetch_errors' = Min(fetch_errors + 1, MaxPollErrors)
  /\ UNCHANGED <<config, api, metrics, pdoc, payloads, metrics_started, coll, file, ingested, locals, dispatched,
                 run_hist, last_ok_batch, committed, first_fetch, crash_hist>>

\* find() raises (no server reachable, connection lost): log mongo_poll_error.
poll_fetch_error ==
  /\ pc = "poll_fetch"
  /\ pc' = "poll_error_sleep"
  /\ fetch_errors' = Min(fetch_errors + 1, MaxPollErrors)
  /\ UNCHANGED <<config, api, metrics, pdoc, payloads, metrics_started, coll, file, ingested, locals, dispatched,
                 run_hist, last_ok_batch, committed, first_fetch, crash_hist>>

\* time.sleep(POLL_INTERVAL_SEC) returns; a new MongoClient; continue.
poll_reconnect ==
  /\ pc = "poll_error_sleep"
  /\ pc' = "poll_fetch"
  /\ UNCHANGED <<config, api, metrics, pdoc, payloads, startup, coll, file, ingested, locals, dispatched, run_hist,
                 last_ok_batch, committed, first_fetch, crash_hist>>

poll_next_batch ==
  /\ pc = "poll_loop"
  /\ i < Len(docs)
  /\ batch' = Slice(docs, i, i + WORKER_BATCH_SIZE)
  /\ attempt' = 0
  /\ posts' = 0
  /\ fails' = 0
  /\ payloads' = [k \in 1..Len(batch') |-> to_payload(DocOf(batch'[k]))]
  /\ run_batches' = Append(run_batches, batch')
  /\ pc' = "batch_post"
  /\ UNCHANGED <<config, api, metrics, pdoc, startup, coll, file, ingested, last_seen_id, docs, i, sleep_for,
                 change, dispatched, run_ok, last_ok_batch, committed, first_fetch, crash_hist>>

poll_run_done ==
  /\ pc = "poll_loop"
  /\ i >= Len(docs)
  /\ pc' = "poll_sleep"
  /\ UNCHANGED <<config, api, metrics, pdoc, payloads, startup, coll, file, ingested, locals, dispatched, run_hist,
                 last_ok_batch, committed, first_fetch, crash_hist>>

\* time.sleep(POLL_INTERVAL_SEC), then the top of `while True`.  docs and the
\* loop's variables are dead here: the next fetch assigns them before any read.
poll_sleep ==
  /\ pc = "poll_sleep"
  /\ pc' = "poll_fetch"
  /\ docs' = <<>>
  /\ i' = 0
  /\ run_batches' = <<>>
  /\ run_ok' = <<>>
  /\ UNCHANGED <<config, api, metrics, pdoc, payloads, startup, coll, file, ingested, last_seen_id, batch, attempt, sleep_for,
                 change, dispatched, posts, fails, last_ok_batch, committed, first_fetch,
                 crash_hist>>

\* ------------------------------------------------ _post_batch_with_retry
\* Mutant of InRange: one attempt too many.
InRangeInclusive(att) == att <= WORKER_MAX_RETRIES

\* `for attempt in range(WORKER_MAX_RETRIES)`: the loop body runs again.
InRange(att) == att < WORKER_MAX_RETRIES

\* One pass of the loop body whose POST is acknowledged: return True.
post_batch_ok ==
  /\ pc = "batch_post"
  /\ InRange(attempt)
  /\ \E status \in Statuses :
       /\ ~Raises(status)
       /\ posts' = posts + 1
       /\ dispatched' = dispatched \cup Sent(payloads)
       /\ ingested' = ingested \cup Sent(payloads)
       /\ pc' = "batch_ok"
  /\ finished' = Inc(finished, Len(batch))
  /\ UNCHANGED <<config, api, WORKER_PROCESSED, WORKER_RETRIES, WORKER_LAST_ID, pdoc, payloads, startup, coll, file, locals, run_batches, run_ok, fails,
                 last_ok_batch, committed, first_fetch, crash_hist>>

\* One pass whose POST fails: count the retry, compute the delay, sleep.
post_batch_fail ==
  /\ pc = "batch_post"
  /\ InRange(attempt)
  /\ \E status \in Statuses, r \in RandomValues :
       /\ Raises(status)
       /\ posts' = posts + 1
       /\ dispatched' = dispatched \cup Sent(payloads)
       /\ IF Caught(status)
            THEN /\ fails' = fails + 1
                 /\ WORKER_RETRIES' = Inc(WORKER_RETRIES, 1)
                 /\ sleep_for' = SleepFor(attempt, r)
                 /\ pc' = "batch_backoff"
            ELSE /\ pc' = "raised"
                 /\ UNCHANGED <<fails, sleep_for, WORKER_RETRIES>>
  /\ UNCHANGED <<config, api, WORKER_PROCESSED, WORKER_LAST_ID, finished, pdoc, payloads, startup, coll, file, ingested, last_seen_id, docs, i, batch, attempt,
                 change, run_batches, run_ok, last_ok_batch, committed, first_fetch, crash_hist>>

\* time.sleep(sleep_for) returns; the loop takes its next value.
post_batch_backoff ==
  /\ pc = "batch_backoff"
  /\ attempt' = attempt + 1
  /\ sleep_for' = 0
  /\ pc' = "batch_post"
  /\ UNCHANGED <<config, api, metrics, pdoc, payloads, startup, coll, file, ingested, last_seen_id, docs, i, batch,
                 change, dispatched, run_hist, last_ok_batch, committed, first_fetch, crash_hist>>

\* The range is exhausted: log ingest_batch_failed, return False.
post_batch_exhausted ==
  /\ pc = "batch_post"
  /\ ~InRange(attempt)
  /\ pc' = "batch_failed"
  /\ finished' = Inc(finished, Len(batch))
  /\ UNCHANGED <<config, api, WORKER_PROCESSED, WORKER_RETRIES, WORKER_LAST_ID, pdoc, payloads, startup, coll, file, ingested, locals, dispatched, run_hist,
                 last_ok_batch, committed, first_fetch, crash_hist>>

\* --------------------------------------- run_polling_worker, after the POST
\* Mutant of AdvanceTo: the first event of the sub-batch instead of the last.
AdvanceToFirst(b) == b[1]

\* last_seen_id = batch[-1]["_id"]
AdvanceTo(b) == Last(b)

\* Mutant of NextIndex: a step one too long, which drops an event per sub-batch.
NextIndexSkip(k) == k + WORKER_BATCH_SIZE + 1

\* The step of the for loop: the next i of range(0, len(docs), WORKER_BATCH_SIZE).
NextIndex(k) == k + WORKER_BATCH_SIZE

\* Where the loop goes after a sub-batch that failed on every attempt.
AfterFailure(k) == NextIndex(k)

poll_batch_ok ==
  /\ pc = "batch_ok"
  /\ last_seen_id' = AdvanceTo(batch)
  /\ last_ok_batch' = batch
  /\ run_ok' = Append(run_ok, TRUE)
  /\ pc' = "save_open"
  /\ WORKER_PROCESSED' = [WORKER_PROCESSED EXCEPT !["success"] = Inc(@, Len(batch))]
  /\ UNCHANGED <<config, api, WORKER_RETRIES, WORKER_LAST_ID, finished, pdoc, payloads, startup, coll, file, ingested, docs, i, batch, attempt, sleep_for,
                 change, dispatched, run_batches, posts, fails, committed, first_fetch, crash_hist>>

\* Mutant of Truncate: the file opened for appending.
TruncateNot(text) == text

\* open(path, "w") on an existing file: its contents are dropped.
Truncate(text) == <<>>

\* _save_checkpoint: path.write_text opens the file for writing, which
\* creates it or truncates it ...
save_checkpoint_open ==
  /\ pc = "save_open"
  /\ save_prev' = load_checkpoint(file_exists, file_text)
  /\ save_new' = last_seen_id
  /\ file_exists' = TRUE
  /\ file_text' = Truncate(file_text)
  /\ pc' = "save_write"
  /\ UNCHANGED <<config, api, metrics, pdoc, payloads, startup, coll, ingested, locals, dispatched, run_hist, last_ok_batch,
                 committed, first_fetch, crash_in_save>>

\* ... then writes str(obj_id) and closes it.
save_checkpoint_write ==
  /\ pc = "save_write"
  /\ file_text' = file_text \o ToStr(last_seen_id)
  /\ committed' = last_seen_id
  /\ pc' = "poll_gauge"
  /\ UNCHANGED <<config, api, metrics, pdoc, payloads, startup, coll, file_exists, ingested, locals, dispatched, run_hist,
                 last_ok_batch, first_fetch, crash_hist>>

\* WORKER_LAST_ID.set(...), then the next sub-batch.
poll_batch_done ==
  /\ pc = "poll_gauge"
  /\ i' = NextIndex(i)
  /\ batch' = <<>>
  /\ attempt' = 0
  /\ posts' = 0
  /\ fails' = 0
  /\ pc' = "poll_loop"
  /\ payloads' = <<>>
  /\ WORKER_LAST_ID' = GaugeSet(WORKER_LAST_ID, Last(batch))
  /\ UNCHANGED <<config, api, WORKER_PROCESSED, WORKER_RETRIES, finished, pdoc, startup, coll, file, ingested, last_seen_id, docs, sleep_for, change,
                 dispatched, run_batches, run_ok, last_ok_batch, committed, first_fetch,
                 crash_hist>>

\* The else branch: count the error, then the next sub-batch.
poll_batch_failed ==
  /\ pc = "batch_failed"
  /\ run_ok' = Append(run_ok, FALSE)
  /\ i' = AfterFailure(i)
  /\ batch' = <<>>
  /\ attempt' = 0
  /\ posts' = 0
  /\ fails' = 0
  /\ pc' = "poll_loop"
  /\ payloads' = <<>>
  /\ WORKER_PROCESSED' = [WORKER_PROCESSED EXCEPT !["error"] = Inc(@, Len(batch))]
  /\ UNCHANGED <<config, api, WORKER_RETRIES, WORKER_LAST_ID, finished, pdoc, startup, coll, file, ingested, last_seen_id, docs, sleep_for, change,
                 dispatched, run_batches, last_ok_batch, committed, first_fetch,
                 crash_hist>>

\* ------------------------------------------------------ _post_with_retry
post_doc_ok ==
  /\ pc = "doc_post"
  /\ InRange(attempt)
  /\ \E status \in Statuses :
       /\ ~Raises(status)
       /\ posts' = posts + 1
       /\ dispatched' = dispatched \cup Sent(payloads)
       /\ ingested' = ingested \cup Sent(payloads)
       /\ pc' = "doc_ok"
  /\ finished' = Inc(finished, 1)
  /\ UNCHANGED <<config, api, WORKER_PROCESSED, WORKER_RETRIES, WORKER_LAST_ID, pdoc, payloads, startup, coll, file, locals, run_batches, run_ok, fails,
                 last_ok_batch, committed, first_fetch, crash_hist>>

post_doc_fail ==
  /\ pc = "doc_post"
  /\ InRange(attempt)
  /\ \E status \in Statuses, r \in RandomValues :
       /\ Raises(status)
       /\ posts' = posts + 1
       /\ dispatched' = dispatched \cup Sent(payloads)
       /\ IF Caught(status)
            THEN /\ fails' = fails + 1
                 /\ WORKER_RETRIES' = Inc(WORKER_RETRIES, 1)
                 /\ sleep_for' = SleepFor(attempt, r)
                 /\ pc' = "doc_backoff"
            ELSE /\ pc' = "raised"
                 /\ UNCHANGED <<fails, sleep_for, WORKER_RETRIES>>
  /\ UNCHANGED <<config, api, WORKER_PROCESSED, WORKER_LAST_ID, finished, pdoc, payloads, startup, coll, file, ingested, last_seen_id, docs, i, batch, attempt,
                 change, run_batches, run_ok, last_ok_batch, committed, first_fetch,
                 crash_hist>>

post_doc_backoff ==
  /\ pc = "doc_backoff"
  /\ attempt' = attempt + 1
  /\ sleep_for' = 0
  /\ pc' = "doc_post"
  /\ UNCHANGED <<config, api, metrics, pdoc, payloads, startup, coll, file, ingested, last_seen_id, docs, i, batch,
                 change, dispatched, run_hist, last_ok_batch, committed, first_fetch,
                 crash_hist>>

post_doc_exhausted ==
  /\ pc = "doc_post"
  /\ ~InRange(attempt)
  /\ pc' = "doc_failed"
  /\ finished' = Inc(finished, 1)
  /\ UNCHANGED <<config, api, WORKER_PROCESSED, WORKER_RETRIES, WORKER_LAST_ID, pdoc, payloads, startup, coll, file, ingested, locals, dispatched, run_hist,
                 last_ok_batch, committed, first_fetch, crash_hist>>

\* ----------------------------------------------- run_change_stream_worker
\* MongoClient(MONGO_URI) connects lazily; start_http_server.
feed_start ==
  /\ pc = "feed_start"
  /\ pc' = "feed_watch"
  /\ metrics_started' = TRUE
  /\ crash_in_save' = FALSE
  /\ save_prev' = None
  /\ save_new' = None
  /\ UNCHANGED <<config, api, metrics, pdoc, payloads, fetch_errors, coll, file, ingested, locals, dispatched, run_hist,
                 last_ok_batch, committed, first_fetch>>

\* coll.watch(full_document="updateLookup") opens the stream.
feed_watch ==
  /\ pc = "feed_watch"
  /\ pc' = "feed_wait"
  /\ UNCHANGED <<config, api, metrics, pdoc, payloads, startup, coll, file, ingested, locals, dispatched, run_hist,
                 last_ok_batch, committed, first_fetch, crash_hist>>

\* coll.watch raises (no server reachable): nothing catches it, the process
\* ends.
feed_watch_error ==
  /\ pc = "feed_watch"
  /\ pc' = "fatal"
  /\ UNCHANGED <<config, api, metrics, pdoc, payloads, startup, coll, file, ingested, locals, dispatched, run_hist,
                 last_ok_batch, committed, first_fetch, crash_hist>>

\* Mutant of Discarded: no test of the operation type.
DiscardedNoDocOnly(op, d) == d = None

\* The two `continue`s of the loop body: an operation type other than insert,
\* replace and update; no fullDocument.
Discarded(op, d) == op \notin {"insert", "replace", "update"} \/ d = None

\* `for change in stream`: the next event; the filter; _process_doc's call of
\* _to_payload and _post_with_retry.  The worker takes the event as the
\* driver hands it over: any operation type, with or without a fullDocument.
feed_next ==
  /\ pc = "feed_wait"
  /\ \E op \in OperationTypes, d \in {None} \cup (1..MaxDocs) :
       /\ change' = [operationType |-> op, fullDocument |-> d]
       /\ IF Discarded(op, d)
            THEN /\ pc' = "feed_wait"
                 /\ UNCHANGED <<attempt, posts, fails, payloads>>
            ELSE /\ pc' = "doc_post"
                 /\ payloads' = <<to_payload(DocOf(d))>>
                 /\ attempt' = 0
                 /\ posts' = 0
                 /\ fails' = 0
  /\ UNCHANGED <<config, api, metrics, pdoc, startup, coll, file, ingested, last_seen_id, docs, i, batch, sleep_for,
                 dispatched, run_batches, run_ok, last_ok_batch, committed, first_fetch,
                 crash_hist>>

\* Mutant of process_doc_done: an event given up is delivered again.
process_doc_requeue ==
  /\ pc \in {"doc_ok", "doc_failed"}
  /\ pc' = IF pc = "doc_ok" THEN "feed_wait" ELSE "doc_post"
  /\ attempt' = 0
  /\ posts' = 0
  /\ fails' = 0
  /\ payloads' = IF pc = "doc_ok" THEN <<>> ELSE payloads
  /\ IF pc = "doc_ok"
       THEN /\ WORKER_PROCESSED' = [WORKER_PROCESSED EXCEPT !["success"] = Inc(@, 1)]
            /\ WORKER_LAST_ID' = GaugeSet(WORKER_LAST_ID, change.fullDocument)
       ELSE /\ WORKER_PROCESSED' = [WORKER_PROCESSED EXCEPT !["error"] = Inc(@, 1)]
            /\ UNCHANGED WORKER_LAST_ID
  /\ UNCHANGED <<config, api, WORKER_RETRIES, finished, pdoc, startup, coll, file, ingested, last_seen_id, docs, i, batch, sleep_for,
                 change, dispatched, run_batches, run_ok, last_ok_batch, committed,
                 first_fetch, crash_hist>>

\* Mutant of process_doc_done: the id of a delivered document is saved.
process_doc_saving ==
  /\ pc \in {"doc_ok", "doc_failed"}
  /\ pc' = "feed_wait"
  /\ file_exists' = TRUE
  /\ file_text' = IF pc = "doc_ok" THEN ToStr(change.fullDocument) ELSE file_text
  /\ attempt' = 0
  /\ posts' = 0
  /\ fails' = 0
  /\ payloads' = <<>>
  /\ IF pc = "doc_ok"
       THEN /\ WORKER_PROCESSED' = [WORKER_PROCESSED EXCEPT !["success"] = Inc(@, 1)]
            /\ WORKER_LAST_ID' = GaugeSet(WORKER_LAST_ID, change.fullDocument)
       ELSE /\ WORKER_PROCESSED' = [WORKER_PROCESSED EXCEPT !["error"] = Inc(@, 1)]
            /\ UNCHANGED WORKER_LAST_ID
  /\ UNCHANGED <<config, api, WORKER_RETRIES, finished, pdoc, startup, coll, ingested, last_seen_id, docs, i, batch, sleep_for,
                 change, dispatched, run_batches, run_ok, last_ok_batch, committed,
                 first_fetch, crash_hist>>

\* _process_doc after _post_with_retry returned: count the outcome.
process_doc_done ==
  /\ pc \in {"doc_ok", "doc_failed"}
  /\ pc' = "feed_wait"
  /\ attempt' = 0
  /\ posts' = 0
  /\ fails' = 0
  /\ payloads' = <<>>
  /\ IF pc = "doc_ok"
       THEN /\ WORKER_PROCESSED' = [WORKER_PROCESSED EXCEPT !["success"] = Inc(@, 1)]
            /\ WORKER_LAST_ID' = GaugeSet(WORKER_LAST_ID, change.fullDocument)
       ELSE /\ WORKER_PROCESSED' = [WORKER_PROCESSED EXCEPT !["error"] = Inc(@, 1)]
            /\ UNCHANGED WORKER_LAST_ID
  /\ UNCHANGED <<config, api, WORKER_RETRIES, finished, pdoc, startup, coll, file, ingested, last_seen_id, docs, i, batch, sleep_for,
                 change, dispatched, run_batches, run_ok, last_ok_batch, committed,
                 first_fetch, crash_hist>>

\* ------------------------------------------------------- process lifecycle
ProperPrefixes(s) == {SubSeq(s, 1, k) : k \in 0..(Len(s) - 1)}

\* What is on disk when the process dies between the open and the close of
\* write_text: nothing yet, or a part of the text.
TornText(s) == ProperPrefixes(s)

\* The process is killed (signal, power loss) at any point; its memory is lost.
Crash ==
  /\ pc \notin {"stopped", "raised", "fatal"}
  /\ pc' = "stopped"
  /\ metrics_started' = FALSE
  /\ fetch_errors' = 0
  /\ IF pc = "save_write"
       THEN /\ file_text' \in {file_text \o t : t \in TornText(ToStr(last_seen_id))}
            /\ crash_in_save' = TRUE
            /\ UNCHANGED <<save_prev, save_new>>
       ELSE /\ file_text' = file_text
            /\ crash_in_save' = FALSE
            /\ save_prev' = None
            /\ save_new' = None
  /\ last_seen_id' = None
  /\ docs' = <<>>
  /\ i' = 0
  /\ batch' = <<>>
  /\ attempt' = 0
  /\ sleep_for' = 0
  /\ change' = NoChange
  /\ run_batches' = <<>>
  /\ run_ok' = <<>>
  /\ posts' = 0
  /\ fails' = 0
  /\ last_ok_batch' = <<>>
  /\ first_fetch' = TRUE
  /\ payloads' = <<>>
  /\ WORKER_PROCESSED' = NoCounts
  /\ WORKER_RETRIES' = 0
  /\ WORKER_LAST_ID' = 0
  /\ finished' = 0
  /\ UNCHANGED <<config, api, pdoc, coll, file_exists, ingested, dispatched, committed>>

\* The process is started again: `if __name__ == "__main__"`.
Restart ==
  /\ pc \in {"stopped", "raised", "fatal"}
  /\ pc' = "import"
  /\ metrics_started' = FALSE
  /\ fetch_errors' = 0
  /\ WORKER_PROCESSED' = NoCounts
  /\ WORKER_RETRIES' = 0
  /\ WORKER_LAST_ID' = 0
  /\ finished' = 0
  /\ UNCHANGED <<config, api, pdoc, payloads, coll, file, ingested, locals, dispatched, run_hist,
                 last_ok_batch, committed, first_fetch, crash_hist>>

Next ==
  \/ InsertDoc
  \/ import_config
  \/ poll_start
  \/ poll_fetch
  \/ poll_fetch_error
  \/ poll_reconnect
  \/ poll_next_batch
  \/ poll_run_done
  \/ poll_sleep
  \/ post_batch_ok
  \/ post_batch_fail
  \/ post_batch_backoff
  \/ post_batch_exhausted
  \/ poll_batch_ok
  \/ save_checkpoint_open
  \/ save_checkpoint_write
  \/ poll_batch_done
  \/ poll_batch_failed
  \/ post_doc_ok
  \/ post_doc_fail
  \/ post_doc_backoff
  \/ post_doc_exhausted
  \/ feed_start
  \/ feed_watch
  \/ feed_watch_error
  \/ feed_next
  \/ process_doc_done
  \/ Crash
  \/ Restart

Spec == Init /\ [][Next]_vars

\* A first start with the counters followed, in one configuration of each mode.
MetricsInit ==
  /\ USE_CHANGE_STREAM \in BOOLEAN
  /\ WORKER_BATCH_SIZE = MaxBatchSize
  /\ WORKER_MAX_RETRIES = MaxRetries
  /\ WORKER_BACKOFF_BASE_SEC = 1
  /\ required_present = TRUE
  /\ count_cap = MaxCount
  /\ coll = {}
  /\ file_exists = FALSE
  /\ file_text = <<>>
  /\ ingested = {}
  /\ InitApi
  /\ InitProcess

FileSpec == FileInit /\ [][Next]_vars

MetricsSpec == MetricsInit /\ [][Next]_vars

\* -------------------------------------------------- _to_payload on its own
Titles == {"", "t"}
Bodies == {"", "b"}
TagLists == {<<>>, <<"x">>, <<"x", "y">>}

\* Documents with and without each of title, body and tags.
Documents ==
  {MkDoc(id, keys, t, b, g) :
     id \in 1..MaxDocs, keys \in SUBSET {"title", "body", "tags"},
     t \in Titles, b \in Bodies, g \in TagLists}

\* A document is about to be handed to _to_payload.
PayloadInit ==
  /\ USE_CHANGE_STREAM = TRUE
  /\ WORKER_BATCH_SIZE = 1
  /\ WORKER_MAX_RETRIES = 1
  /\ WORKER_BACKOFF_BASE_SEC = 1
  /\ required_present = TRUE
  /\ count_cap = 0
  /\ coll = {}
  /\ file_exists = FALSE
  /\ file_text = <<>>
  /\ ingested = {}
  /\ InitApi
  /\ pdoc \in Documents
  /\ pc = "to_payload"
  /\ metrics_started = TRUE
  /\ WORKER_PROCESSED = NoCounts
  /\ WORKER_RETRIES = 0
  /\ WORKER_LAST_ID = 0
  /\ finished = 0
  /\ fetch_errors = 0
  /\ last_seen_id = None
  /\ docs = <<>>
  /\ i = 0
  /\ batch = <<>>
  /\ attempt = 0
  /\ sleep_for = 0
  /\ change = NoChange
  /\ payloads = <<>>
  /\ dispatched = {}
  /\ run_batches = <<>>
  /\ run_ok = <<>>
  /\ posts = 0
  /\ fails = 0
  /\ last_ok_batch = <<>>
  /\ committed = None
  /\ first_fetch = TRUE
  /\ save_prev = None
  /\ save_new = None
  /\ crash_in_save = FALSE

\* payload = _to_payload(doc)
build_payload ==
  /\ pc = "to_payload"
  /\ payloads' = <<to_payload(pdoc)>>
  /\ pc' = "payload_built"
  /\ UNCHANGED <<config, api, metrics, pdoc, startup, coll, file, ingested, last_seen_id, docs, i,
                 batch, attempt, sleep_for, change, dispatched, run_hist, last_ok_batch,
                 committed, first_fetch, crash_hist>>

PayloadNext == build_payload

PayloadSpec == PayloadInit /\ [][PayloadNext]_vars

\* ------------------------------------------ auth_and_rate_limit on its own
\* How far the clock moves between two requests (or not at all).
Steps == {30, 31}

\* The API has started: any limit, with and without a token; the worker is
\* not part of this specification.
LimiterInit ==
  /\ USE_CHANGE_STREAM = FALSE
  /\ WORKER_BATCH_SIZE = 1
  /\ WORKER_MAX_RETRIES = 1
  /\ WORKER_BACKOFF_BASE_SEC = 1
  /\ required_present = TRUE
  /\ count_cap = 0
  /\ coll = {}
  /\ file_exists = FALSE
  /\ file_text = <<>>
  /\ ingested = {}
  /\ InitProcess
  /\ RATE_LIMIT_PER_MIN \in 0..MaxLimit
  /\ API_TOKEN \in {"", "secret"}
  /\ now = 0
  /\ request_log = [c \in Clients |-> <<>>]
  /\ admitted = [c \in Clients |-> <<>>]
  /\ handled = NoRequest

\* Time passes.
tick ==
  /\ \E d \in Steps :
       /\ now + d <= MaxTime
       /\ now' = now + d
  /\ UNCHANGED <<config, RATE_LIMIT_PER_MIN, API_TOKEN, request_log, admitted, handled,
                 startup, metrics, pdoc, payloads, coll, file, ingested, pc, locals,
                 dispatched, run_hist, last_ok_batch, committed, first_fetch, crash_hist>>

\* The middleware handles one request: the limiter, the token, the endpoint.
\* (No await lies between reading and appending to request_log.)
auth_and_rate_limit ==
  /\ \E client_ip \in Clients, path \in Paths :
       LET timestamps == PruneHead(request_log[client_ip], now)
       IN  IF skip_auth(path)
             THEN /\ handled' = [client_ip |-> client_ip, path |-> path, status |-> 200]
                  /\ UNCHANGED <<request_log, admitted>>
             ELSE IF Len(timestamps) >= RATE_LIMIT_PER_MIN
                    THEN /\ request_log' = [request_log EXCEPT ![client_ip] = timestamps]
                         /\ handled' = [client_ip |-> client_ip, path |-> path, status |-> 429]
                         /\ UNCHANGED admitted
                    ELSE /\ request_log' =
                              [request_log EXCEPT ![client_ip] = Append(timestamps, now)]
                         /\ admitted' = [admitted EXCEPT ![client_ip] = Append(@, now)]
                         /\ \E header \in Headers :
                              handled' =
                                [client_ip |-> client_ip, path |-> path,
                                 status |-> IF API_TOKEN # "" /\ Token(header) # API_TOKEN
                                              THEN 401 ELSE 200]
  /\ UNCHANGED <<config, RATE_LIMIT_PER_MIN, API_TOKEN, now,
                 startup, metrics, pdoc, payloads, coll, file, ingested, pc, locals,
                 dispatched, run_hist, last_ok_batch, committed, first_fetch, crash_hist>>

LimiterNext ==
  \/ tick
  \/ auth_and_rate_limit

LimiterSpec == LimiterInit /\ [][LimiterNext]_vars

\* ------------------------------------------------------------ properties
Saved == load_checkpoint(file_exists, file_text)

RECURSIVE Concat(_)
Concat(ss) == IF ss = <<>> THEN <<>> ELSE ss[1] \o Concat(Tail(ss))

Ceil(m, b) == (m + b - 1) \div b

InDelivery == pc \in {"batch_post", "batch_backoff", "batch_ok"}

\* C1: the saved checkpoint never passes a sub-batch that was not acknowledged:
\* every source event with id <= the checkpoint in the file was part of an
\* acknowledged POST.
C1_CheckpointOnlyConfirmed ==
  \A e \in coll : e <= Saved => e \in ingested

\* C2: within an execution the checkpoint in memory never decreases, and when a
\* save completes the file holds the id of the last event of the most recent
\* acknowledged sub-batch, which is the checkpoint in memory and is not below
\* what the file held before.
C2_CheckpointMonotone ==
  [][ /\ pc' # "stopped" => last_seen_id' >= last_seen_id
      /\ (pc = "save_write" /\ pc' = "poll_gauge") =>
           /\ load_checkpoint(file_exists', file_text') = Last(last_ok_batch')
           /\ load_checkpoint(file_exists', file_text') = last_seen_id'
           /\ load_checkpoint(file_exists', file_text') >= save_prev ]_vars

C2_Witness == pc = "poll_gauge" /\ save_prev # None /\ Saved > save_prev

\* C3: no event is skipped: at the end of a tick every event the next fetch
\* will not return (id <= checkpoint) was delivered.
C3_NoEventSkipped ==
  pc = "poll_sleep" => \A e \in coll : e <= last_seen_id => e \in ingested

\* C4: after a sub-batch of the run failed on every attempt, no later sub-batch
\* of the same run is dispatched or checkpointed in that tick.
C4_NoDispatchAfterFailure ==
  pc \in {"batch_post", "batch_backoff", "batch_ok", "save_open", "save_write"} =>
    \A k \in 1..Len(run_ok) : run_ok[k]

\* C5: a crash inside _save_checkpoint(new) leaves a file from which
\* _load_checkpoint returns the previous value or new.
C5_SaveAtomic ==
  crash_in_save => Saved \in {save_prev, save_new}

\* C6: the first fetch after a (re)start uses the id of the last completed save
\* as its lower bound, and so returns every event that was dispatched but not
\* acknowledged.
C6_RestartResumes ==
  (pc = "poll_fetch" /\ first_fetch) =>
    /\ last_seen_id = committed
    /\ \A e \in dispatched \ ingested : e > last_seen_id

\* C7: within a run the sub-batches are dispatched in strictly increasing id
\* order, the delivery of a sub-batch starts only when the checkpoint of the
\* acknowledged sub-batch before it is in memory and in the file, and a save
\* never writes an id that is not above what the file held.
C7_InOrderDispatch ==
  /\ InDelivery =>
       LET all == Concat(run_batches)
           n == Len(run_batches)
       IN  /\ \A a, b \in 1..Len(all) : a < b => all[a] < all[b]
           /\ (n >= 2 /\ run_ok[n - 1]) =>
                /\ last_seen_id = Last(run_batches[n - 1])
                /\ Saved = last_seen_id
  /\ pc = "save_write" => (save_new = last_seen_id /\ save_new > save_prev)

C7_Witness ==
  /\ pc = "batch_post"
  /\ Len(run_batches) >= 2
  /\ run_ok[Len(run_batches) - 1]
  /\ Saved = run_batches[Len(run_batches) - 1][Len(run_batches[Len(run_batches) - 1])]

\* C8: a run of M >= 1 events is split into ceil(M / B) non-empty sub-batches
\* of at most B events whose concatenation, in dispatch order, is the run.
C8_SplitCorrect ==
  /\ pc \in {"poll_loop", "batch_post", "batch_backoff", "batch_ok", "batch_failed",
             "save_open", "save_write", "poll_gauge"} =>
       /\ \A k \in 1..Len(run_batches) :
            Len(run_batches[k]) >= 1 /\ Len(run_batches[k]) <= WORKER_BATCH_SIZE
       /\ Concat(run_batches) = SubSeq(docs, 1, Len(Concat(run_batches)))
  /\ (pc = "poll_sleep" /\ docs # <<>>) =>
       /\ Len(run_batches) = Ceil(Len(docs), WORKER_BATCH_SIZE)
       /\ \A k \in 1..Len(run_batches) :
            Len(run_batches[k]) >= 1 /\ Len(run_batches[k]) <= WORKER_BATCH_SIZE
       /\ Concat(run_batches) = docs

C8_Witness ==
  /\ pc = "poll_sleep"
  /\ Len(docs) = 3
  /\ WORKER_BATCH_SIZE = 2
  /\ run_batches = <<SubSeq(docs, 1, 2), SubSeq(docs, 3, 3)>>

\* C9: a delivery makes at most WORKER_MAX_RETRIES POSTs; it returns True at the
\* first acknowledged POST, and False after exactly WORKER_MAX_RETRIES failed
\* ones; every POST that is not acknowledged (no answer, 4xx, 5xx) is one
\* failed attempt; no failure leaves the retry loop as an exception.
C9_RetryBounded ==
  /\ pc # "raised"
  /\ pc \in {"batch_post", "batch_backoff", "batch_failed",
             "doc_post", "doc_backoff", "doc_failed"} =>
       /\ posts <= WORKER_MAX_RETRIES
       /\ fails = posts
  /\ pc \in {"batch_post", "doc_post"} => attempt = posts
  /\ pc \in {"batch_ok", "doc_ok"} =>
       /\ posts <= WORKER_MAX_RETRIES
       /\ posts = fails + 1
       /\ attempt = fails
  /\ pc = "batch_ok" => Range(batch) \subseteq ingested
  /\ pc = "doc_ok" => change.fullDocument \in ingested
  /\ pc \in {"batch_failed", "doc_failed"} =>
       /\ fails = WORKER_MAX_RETRIES
       /\ posts = WORKER_MAX_RETRIES

C9_Witness ==
  /\ pc = "batch_failed"
  /\ WORKER_MAX_RETRIES = 2
  /\ fails = 2
  /\ Range(batch) \cap ingested = {}

\* One second, in the unit of sleep_for.
Unit == Pow(2, MantBits)

\* base * 2^(n-1), for the n-th failed attempt (n >= 1).
LowerBound(n) == WORKER_BACKOFF_BASE_SEC * Pow(2, n - 1) * Unit

\* C10, as claimed: the delay after the n-th failed attempt lies in
\* [base * 2^(n-1), base * 2^n).
C10_BackoffHalfOpen ==
  pc \in {"batch_backoff", "doc_backoff"} =>
    /\ fails >= 1
    /\ LowerBound(fails) <= sleep_for
    /\ sleep_for < 2 * LowerBound(fails)

\* C10, amended: the delay after the n-th failed attempt is base * 2^(n-1)
\* times a factor in [1, 2], so it lies in [base * 2^(n-1), base * 2^n]; the
\* upper end is reached when the float sum 1 + jitter rounds to 2.0.
C10_BackoffClosed ==
  pc \in {"batch_backoff", "doc_backoff"} =>
    /\ fails >= 1
    /\ LowerBound(fails) <= sleep_for
    /\ sleep_for <= 2 * LowerBound(fails)
    /\ sleep_for % (WORKER_BACKOFF_BASE_SEC * Pow(2, fails - 1)) = 0

C10_Witness ==
  /\ pc = "batch_backoff"
  /\ fails = 2
  /\ WORKER_BACKOFF_BASE_SEC = 2
  /\ sleep_for > LowerBound(2)
  /\ sleep_for < 2 * LowerBound(2)

\* ------------------------------------------------------ checkpoint file
\* The ids a text spells: an id of the full width, white space around it.
IdsWritten(text) ==
  {d \in 1..(Pow(10, IdWidth) - 1) :
     \E a \in 0..Len(text) :
        /\ a + IdWidth <= Len(text)
        /\ SubSeq(text, a + 1, a + IdWidth) = ToStr(d)
        /\ \A k \in (1..a) \cup ((a + IdWidth + 1)..Len(text)) : text[k] \in Whitespace}

\* The file holds no checkpoint: it is absent, empty or spells no id.
Unloadable == ~file_exists \/ IdsWritten(file_text) = {}

\* C11: a checkpoint file that does not exist, is empty or cannot be parsed as
\* an id loads as None without an exception: no start ends by an unhandled
\* exception, and the polling loop is entered with no lower bound.
C11_LoadNeverRaises ==
  /\ pc # "raised"
  /\ (pc = "poll_fetch" /\ first_fetch /\ Unloadable) => last_seen_id = None

\* A start over a file of text that is no id reached the polling loop.
C11_Witness ==
  /\ pc = "poll_fetch"
  /\ first_fetch
  /\ file_exists
  /\ Strip(file_text) # <<>>
  /\ Unloadable
  /\ last_seen_id = None

\* C12: a completed _save_checkpoint(id) leaves exactly str(id) in the file,
\* whatever it held before, and _load_checkpoint of it returns id; the later
\* of two saves is the one that is read back.
C12_SaveLoadRoundTrip ==
  pc = "poll_gauge" =>
    /\ file_exists
    /\ file_text = ToStr(save_new)
    /\ IdsWritten(file_text) = {save_new}
    /\ load_checkpoint(file_exists, file_text) = save_new
    /\ save_new = last_seen_id

\* A second save of the same process completed over the first one's text.
C12_Witness ==
  /\ pc = "poll_gauge"
  /\ save_prev # None
  /\ save_new # save_prev
  /\ load_checkpoint(file_exists, file_text) = save_new

\* ------------------------------------------------------------ the fetch
\* C13: a fetch returns exactly the documents of the collection whose id is
\* above the checkpoint the worker holds, every document when it holds none,
\* each once and in ascending id order.
C13_FetchAboveCheckpoint ==
  [][(pc = "poll_fetch" /\ pc' \in {"poll_loop", "poll_sleep"}) =>
       /\ Range(docs') = {d \in coll : last_seen_id = None \/ d > last_seen_id}
       /\ \A k \in 1..(Len(docs') - 1) : docs'[k] < docs'[k + 1]
       /\ last_seen_id = None => Len(docs') = Cardinality(coll)
       /\ last_seen_id' = last_seen_id]_vars

\* A fetch above a checkpoint returned two documents and left one out.
C13_Witness ==
  /\ pc = "poll_loop"
  /\ i = 0
  /\ run_batches = <<>>
  /\ last_seen_id # None
  /\ Len(docs) >= 2
  /\ last_seen_id \in coll

\* C14: a fetch that raises does not end the worker.  The failing step and the
\* wait after it leave the checkpoint in memory and on disk, the events
\* dispatched and the events acknowledged as they were; nothing of a run is
\* held while the worker waits; after the wait the worker is back at the fetch
\* with the same lower bound.  (Steps of the process being killed aside.)
C14_FetchFailureKeepsRunning ==
  [][/\ (pc = "poll_fetch" /\ pc' \notin {pc, "poll_loop", "poll_sleep", "stopped"}) =>
          /\ pc' = "poll_error_sleep"
          /\ UNCHANGED <<last_seen_id, file_exists, file_text, dispatched, ingested>>
     /\ (pc = "poll_error_sleep" /\ pc' \notin {pc, "stopped"}) =>
          /\ pc' = "poll_fetch"
          /\ Query(last_seen_id') = Query(last_seen_id)
          /\ UNCHANGED <<last_seen_id, file_exists, file_text, dispatched, ingested>>
     /\ pc = "poll_error_sleep" =>
          /\ docs = <<>>
          /\ batch = <<>>
          /\ run_batches = <<>>
          /\ posts = 0]_vars

\* MaxPollErrors fetches in a row failed after a checkpoint had been saved,
\* and the worker is waiting to fetch again.
C14_Witness ==
  /\ pc = "poll_error_sleep"
  /\ fetch_errors = MaxPollErrors
  /\ last_seen_id # None
  /\ load_checkpoint(file_exists, file_text) = last_seen_id

\* ----------------------------------------------------------------- startup
\* The process could not start: a required name is missing from the
\* environment, the feed could not be opened, or no fetch has returned since
\* the process began and the last one failed.
StartupFailed ==
  \/ pc = "fatal"
  \/ (~USE_CHANGE_STREAM /\ first_fetch /\ fetch_errors > 0)

\* C15: a process that could not start (required configuration absent, no
\* source connection established) has ended, and it ended before it started
\* the metrics server, dispatched an event or wrote the checkpoint.
C15_FatalStartupAborts ==
  StartupFailed =>
    /\ pc = "fatal"
    /\ ~metrics_started
    /\ posts = 0
    /\ save_new = None

\* The half of C15 about the configuration: with a required name missing the
\* process ends at the import, before anything else ran.
C15_MissingConfigAborts ==
  ~required_present =>
    /\ pc \in {"import", "fatal", "stopped"}
    /\ ~metrics_started
    /\ dispatched = {}
    /\ ~file_exists

\* ---------------------------------------------------------- the payload
\* C18: the payload built from a document has exactly the four keys, mongo_id
\* the text of the id, title and body the document's values or "" where the
\* document has none, tags its value or the empty sequence; it is determined
\* by the document, and building it leaves the document and everything else
\* as it was.
C18_PayloadProjection ==
  [][pc' = "payload_built" =>
       /\ pdoc' = pdoc
       /\ Len(payloads') = 1
       /\ DOMAIN payloads'[1] = {"mongo_id", "title", "body", "tags"}
       /\ payloads'[1].mongo_id = ToStr(pdoc["_id"])
       /\ payloads'[1].title = (IF "title" \in DOMAIN pdoc THEN pdoc["title"] ELSE "")
       /\ payloads'[1].body = (IF "body" \in DOMAIN pdoc THEN pdoc["body"] ELSE "")
       /\ payloads'[1].tags = (IF "tags" \in DOMAIN pdoc THEN pdoc["tags"] ELSE <<>>)
       /\ UNCHANGED <<coll, ingested, dispatched, file_exists, file_text, last_seen_id>>]_vars

\* A payload was built from a document with a title and tags and no body.
C18_Witness ==
  /\ pc = "payload_built"
  /\ DOMAIN pdoc = {"_id", "title", "tags"}
  /\ pdoc["title"] = "t"
  /\ pdoc["tags"] = <<"x", "y">>
  /\ payloads[1].body = ""
  /\ payloads[1].tags = <<"x", "y">>

\* ---------------------------------------------------------------- the feed
Processed == {"insert", "replace", "update"}

Delivering == pc \in {"doc_post", "doc_backoff", "doc_ok", "doc_failed"}

\* C16: in feed mode a payload is built and a delivery is under way only for
\* an insert, replace or update event that carries a document; an event of
\* any other operation type builds no payload, dispatches nothing and leaves
\* the worker waiting for the next event.
C16_FeedFilter ==
  [][/\ (USE_CHANGE_STREAM /\ (Delivering' \/ payloads' # <<>>)) =>
          /\ change'.operationType \in Processed
          /\ change'.fullDocument # None
          /\ payloads' = <<to_payload(DocOf(change'.fullDocument))>>
     /\ (pc = "feed_wait" /\ pc' # "stopped" /\ change'.operationType \notin Processed) =>
          /\ pc' = "feed_wait"
          /\ payloads' = <<>>
          /\ UNCHANGED <<dispatched, ingested, posts>>]_vars

\* A delete event that carried a document was discarded after an earlier
\* event had been delivered; the worker waits for the next event.
C16_Witness ==
  /\ pc = "feed_wait"
  /\ change.operationType = "delete"
  /\ change.fullDocument # None
  /\ change.fullDocument \notin dispatched
  /\ dispatched # {}
  /\ payloads = <<>>

\* C17: the feed worker neither reads nor writes the checkpoint: it holds no
\* checkpoint in memory whatever the file contains, and no step taken in feed
\* mode, a delivery that succeeds or fails included, changes the file.
C17_FeedLeavesCheckpoint ==
  [][USE_CHANGE_STREAM =>
       /\ file_exists' = file_exists
       /\ file_text' = file_text
       /\ last_seen_id' = None
       /\ save_new' = None]_vars

\* A feed worker started over a file that holds an id has delivered one event
\* and given up on another; the file is as it was written.
C17_Witness ==
  /\ USE_CHANGE_STREAM
  /\ pc = "feed_wait"
  /\ ingested # {}
  /\ dispatched \ ingested # {}
  /\ file_exists
  /\ IdsWritten(file_text) # {}
  /\ last_seen_id = None

\* ------------------------------------------------------------- the metrics
Success == WORKER_PROCESSED["success"]

Errors == WORKER_PROCESSED["error"]

\* C19: in polling mode, while the process runs: a POST that fails adds one to
\* the retry counter and no other step changes it; the step after a delivery
\* returned adds the size of the sub-batch to the success counter when it was
\* acknowledged and to the error counter when it was given up, leaving the
\* other one, and no other step changes either; between deliveries the two
\* add up to the events of the sub-batches delivered or given up; the gauge
\* changes only after an acknowledged sub-batch whose last id is in the
\* checkpoint file, and becomes that id.  (Counters below count_cap.)
C19_MetricsAccounting ==
  [][(~USE_CHANGE_STREAM /\ pc' # "stopped") =>
       /\ IF pc = "batch_post" /\ pc' = "batch_backoff"
            THEN WORKER_RETRIES < count_cap => WORKER_RETRIES' = WORKER_RETRIES + 1
            ELSE WORKER_RETRIES' = WORKER_RETRIES
       /\ CASE pc = "batch_ok" /\ pc' # pc ->
                 /\ Success + Len(batch) <= count_cap => Success' = Success + Len(batch)
                 /\ Errors' = Errors
            [] pc = "batch_failed" /\ pc' # pc ->
                 /\ Errors + Len(batch) <= count_cap => Errors' = Errors + Len(batch)
                 /\ Success' = Success
            [] OTHER -> WORKER_PROCESSED' = WORKER_PROCESSED
       /\ (pc \notin {"batch_ok", "batch_failed"} /\ finished < count_cap) =>
            Success + Errors = finished
       /\ WORKER_LAST_ID' # WORKER_LAST_ID =>
            /\ pc = "poll_gauge"
            /\ Last(run_ok)
            /\ WORKER_LAST_ID' = Last(batch)
            /\ file_exists
            /\ file_text = ToStr(Last(batch))]_vars

\* One sub-batch was given up after two failed attempts and one was
\* acknowledged and saved; the worker is between deliveries.
C19_Witness ==
  /\ ~USE_CHANGE_STREAM
  /\ pc = "poll_loop"
  /\ Success = 1
  /\ Errors = 1
  /\ WORKER_RETRIES = 2
  /\ finished = 2
  /\ WORKER_LAST_ID = 1

\* C20: in feed mode the step after a delivery that used up its attempts adds
\* one to the error counter and takes the worker back to waiting for the feed,
\* holding no payload, with nothing more dispatched; a delivery begins only
\* with an event taken from the feed, for the document of that event, and
\* every POST carries the document of the event being delivered.  The worker
\* keeps no list of events given up.
C20_FeedAbandonsFailed ==
  [][USE_CHANGE_STREAM =>
       /\ (pc = "doc_failed" /\ pc' \notin {pc, "stopped"}) =>
            /\ pc' = "feed_wait"
            /\ payloads' = <<>>
            /\ Errors < count_cap => Errors' = Errors + 1
            /\ Success' = Success
            /\ UNCHANGED <<dispatched, ingested>>
       /\ (pc' = "doc_post" /\ pc # "doc_backoff") =>
            /\ pc = "feed_wait"
            /\ payloads = <<>>
            /\ change'.operationType \in Processed
            /\ payloads' = <<to_payload(DocOf(change'.fullDocument))>>
       /\ (posts' > posts) =>
            /\ pc = "doc_post"
            /\ change' = change
            /\ dispatched' = dispatched \cup {change.fullDocument}]_vars

\* An event was given up after MaxRetries failed attempts and counted; the
\* worker has since delivered an event for another document, and the first
\* document was never acknowledged.
C20_Witness ==
  /\ USE_CHANGE_STREAM
  /\ pc = "feed_wait"
  /\ Errors = 1
  /\ Success = 1
  /\ WORKER_RETRIES = MaxRetries
  /\ change.fullDocument \in ingested
  /\ \E d \in dispatched : d \notin ingested

\* --------------------------------------------------------- the rate limiter
\* The paths of Paths the limiter is to leave alone: all but /ingest.
OpenInClaim == Paths \ {IngestPath}

\* The requests of a client that were let through and are at most one window
\* old at time t.
Recent(c, t) ==
  Cardinality({k \in 1..Len(admitted[c]) :
                 admitted[c][k] <= t /\ t <= admitted[c][k] + RATE_WINDOW_SEC})

IsSuffix(s, t) == Len(s) <= Len(t) /\ s = SubSeq(t, Len(t) - Len(s) + 1, Len(t))

\* No window of RATE_WINDOW_SEC seconds, taken from any request let through,
\* holds more than RATE_LIMIT_PER_MIN requests of one client let through.
WindowBound ==
  \A c \in Clients : \A k \in 1..Len(admitted[c]) :
    Cardinality({j \in k..Len(admitted[c]) :
                   admitted[c][j] <= admitted[c][k] + RATE_WINDOW_SEC})
      <= RATE_LIMIT_PER_MIN

\* What one handled request does (the clock stands still in such a step).
Limited ==
  now' = now =>
    LET c == handled'.client_ip
    IN  /\ \A o \in Clients \ {c} :
             request_log'[o] = request_log[o] /\ admitted'[o] = admitted[o]
        /\ handled'.path \in OpenInClaim =>
             /\ handled'.status \notin {429, 401}
             /\ UNCHANGED <<request_log, admitted>>
        /\ handled'.path \notin OpenInClaim =>
             /\ handled'.status = 429 <=> Recent(c, now) >= RATE_LIMIT_PER_MIN
             /\ handled'.status = 429 =>
                  /\ admitted'[c] = admitted[c]
                  /\ IsSuffix(request_log'[c], request_log[c])
             /\ handled'.status # 429 =>
                  /\ admitted'[c] = Append(admitted[c], now)
                  /\ request_log'[c] # <<>>
                  /\ Last(request_log'[c]) = now
             /\ handled'.status = 401 => API_TOKEN # ""

\* C21: no window of RATE_WINDOW_SEC seconds holds more than
\* RATE_LIMIT_PER_MIN requests of one client that were let through; and for
\* every request handled: nothing of another client's changes; a request to
\* an open path is answered without touching the limiter; any other request
\* is answered 429 exactly when RATE_LIMIT_PER_MIN requests of its client
\* that were let through are at most RATE_WINDOW_SEC old, and then it is not
\* recorded; otherwise it is recorded, before the token is looked at, so also
\* when the answer is 401.
C21_RateLimit == []WindowBound /\ [][Limited]_vars

\* A request was answered 429 while the oldest request counted against it was
\* exactly RATE_WINDOW_SEC old; an older one had left the window, one of the
\* requests counted had been answered 401, and the other client was let
\* through at the same time.
C21_Witness ==
  /\ handled.status = 429
  /\ handled.path = IngestPath
  /\ RATE_LIMIT_PER_MIN = MaxLimit
  /\ API_TOKEN # ""
  /\ LET c == handled.client_ip
     IN  /\ Len(request_log[c]) = RATE_LIMIT_PER_MIN
         /\ request_log[c][1] + RATE_WINDOW_SEC = now
         /\ Len(admitted[c]) > Len(request_log[c])
         /\ \E o \in Clients \ {c} : request_log[o] # <<>> /\ Last(request_log[o]) = now
====
